---- MODULE Spec2Model ----
(***************************************************************************)
(* Geometry buffer model of plugins/geometry/src/Geometry.js.              *)
(*                                                                         *)
(* Objects with identity (Buffer, the attribute map of a Geometry, the     *)
(* Geometry itself) live in three heaps, each a sequence whose positions   *)
(* are the object references.  0 is the null reference.  Buffer positions  *)
(* inside a Geometry's buffer list are 0-based in Attribute.buffer, as in  *)
(* the source; the list itself is a 1-based TLA+ sequence.                 *)
(*                                                                         *)
(* A new Buffer created on behalf of geometry g takes the next unused      *)
(* reference of g's own range of references, so that operations on         *)
(* different geometries commute to the same state.                         *)
(*                                                                         *)
(* Input discipline: every Buffer belongs to one Geometry (spec section 3, *)
(* Ownership); attribute data is Float32, index data is Uint16; callers    *)
(* of merge pass geometries of identical layout (its documented            *)
(* precondition); a destroyed Geometry is not used again.                  *)
(***************************************************************************)
EXTENDS Integers, Sequences, FiniteSets, TLC

VARIABLES
    heap,       \* Buffer reference -> Buffer
    geoms,      \* Geometry reference -> Geometry
    attrMaps,   \* attribute-map reference -> attribute map
    thrown,     \* the error the last call raised, "none" if it returned
    origin,     \* history: how each Geometry came to be
    last        \* history: the last call, where a specification records it

vars == <<heap, geoms, attrMaps, thrown, origin, last>>

\* ------------------------------------------------------------- bounds
\* Buffers ever created on behalf of one geometry; of these, Buffers the caller
\* registers with the one geometry of SpecBuild, and with a geometry of the
\* other specifications; geometries made by Spec, and passed to merge by
\* SpecMerge
MaxBuffers == 4
MaxAdded == 3
MaxLeanAdded == 2
MaxGeoms == 2

\* ------------------------------------------------------------- inputs
NULL == 0
UINT16 == 65536

\* an id is the list of names joined by '|' in the source's string
Ids == {<<"a">>, <<"b">>, <<"a", "b">>}
Sizes == {1, 2}
FloatArrays == {<<1, 2>>, <<3, 4, 5, 6>>}
IndexArrays == {<<0, 1>>}
WriteValues == {9}
MergeLengths == {1, 2}
LeanIds == {<<"a">>, <<"b">>}
LeanSizes == {2}
LeanArrays == {<<1, 2>>}
CloneIds == {<<"a">>}

\* ------------------------------------------------------------- helpers
Range(s) == {s[i] : i \in DOMAIN s}

Min(S) == CHOOSE x \in S : \A y \in S : x <= y

\* Array.prototype.indexOf: 0-based position of the first match, -1 if none
indexOf(s, x) ==
    IF \E i \in DOMAIN s : s[i] = x
    THEN Min({i \in DOMAIN s : s[i] = x}) - 1
    ELSE -1

RECURSIVE SumSeq(_)
SumSeq(s) == IF s = <<>> THEN 0 ELSE Head(s) + SumSeq(Tail(s))

RECURSIVE Concat(_)
Concat(ss) == IF ss = <<>> THEN <<>> ELSE Head(ss) \o Concat(Tail(ss))

\* typed-array element conversions; Float32 is exact on the small integers used
ToFloat32(x) == x
ToUint16(x) == x % UINT16

Float32Array(a) == [i \in DOMAIN a |-> ToFloat32(a[i])]
Uint16Array(a) == [i \in DOMAIN a |-> ToUint16(a[i])]

\* ------------------------------------------------------------- Buffer, Attribute
Buffer(data, type) == [data |-> data, type |-> type, index |-> FALSE]

\* Buffer.destroy(): the array is released (data becomes null)
BufferDestroy(b) == [b EXCEPT !.data = <<>>, !.type = "null"]

destroyBuffers(h, doomed) ==
    [b \in DOMAIN h |-> IF b \in doomed THEN BufferDestroy(h[b]) ELSE h[b]]

Attribute(buffer, size, normalized, type, stride, start, instance) ==
    [buffer |-> buffer, size |-> size, normalized |-> normalized, type |-> type,
     stride |-> stride, start |-> start, instance |-> instance]

\* bytes per component of a GL scalar type
GL_SIZE_MAP(type) == IF type = "FLOAT" THEN 4 ELSE 1

Geometry(attributes) ==
    [buffers |-> <<>>, indexBuffer |-> NULL, attributes |-> attributes, live |-> TRUE]

Live == {g \in DOMAIN geoms : geoms[g].live}

\* the references geometry g's new Buffers are taken from
Refs(g) == ((g - 1) * MaxBuffers + 1)..(g * MaxBuffers)

\* the references of geometry g not yet given to a Buffer
Unused(h, g) == Refs(g) \ DOMAIN h

Owned(g) == Refs(g) \cap DOMAIN heap

\* a fresh Buffer reference for geometry g in heap h
NewRef(h, g) == Min(Unused(h, g))

CanCreate(h, g) == Unused(h, g) # {}

\* the attribute map object of geometry g: a sequence of <<name, Attribute>>
\* entries in property (insertion) order
MapOf(g) == attrMaps[geoms[g].attributes]

\* this.attributes[id] = attribute
MapPut(m, id, attribute) ==
    IF \E k \in DOMAIN m : m[k].name = id
    THEN [k \in DOMAIN m |->
            IF m[k].name = id THEN [name |-> id, attr |-> attribute] ELSE m[k]]
    ELSE Append(m, [name |-> id, attr |-> attribute])

Op(name, g) == [name |-> name, g |-> g, twice |-> FALSE]

Origin(kind, src) == [kind |-> kind, src |-> src, adds |-> {}, pure |-> TRUE]

Touch(g) == [origin EXCEPT ![g].pure = FALSE, ![g].adds = {}]

Registered(g, b) ==
    IF origin[g].pure THEN [origin EXCEPT ![g].adds = @ \cup {b}] ELSE origin

\* ------------------------------------------------------------- constructor
Init ==
    /\ heap = <<>>
    /\ geoms = <<>>
    /\ attrMaps = <<>>
    /\ origin = <<>>
    /\ thrown = "none"
    /\ last = Op("init", 0)

construct ==
    /\ geoms' = Append(geoms, Geometry(Len(attrMaps) + 1))
    /\ attrMaps' = Append(attrMaps, <<>>)
    /\ origin' = Append(origin, Origin("new", <<>>))
    /\ thrown' = "none"
    /\ UNCHANGED heap

\* ------------------------------------------------------------- addAttribute
\* a faulty registration: the buffer is appended without looking for it in the list
registerAttributeAppending(G, m, id, b, size) ==
    [geom |-> [G EXCEPT !.buffers = Append(G.buffers, b)],
     map |-> MapPut(m, id,
                Attribute(Len(G.buffers), size, FALSE, "FLOAT", 0, 0, FALSE))]

\* lines 96-104: resolve the buffer's slot, then store the Attribute
registerAttribute(G, m, id, b, size) ==
    LET found == indexOf(G.buffers, b)
        buffers == IF found = -1 THEN Append(G.buffers, b) ELSE G.buffers
        bufferIndex == IF found = -1 THEN Len(buffers) - 1 ELSE found
    IN  [geom |-> [G EXCEPT !.buffers = buffers],
         map |-> MapPut(m, id,
                    Attribute(bufferIndex, size, FALSE, "FLOAT", 0, 0, FALSE))]

\* lines 84-94: one registration per name of the id
RECURSIVE registerAll(_, _, _, _, _)
registerAll(G, m, ids, b, size) ==
    IF ids = <<>> THEN [geom |-> G, map |-> m]
    ELSE LET r == registerAttribute(G, m, Head(ids), b, size)
         IN  registerAll(r.geom, r.map, Tail(ids), b, size)

\* the buffer argument: absent, a raw array, or a Buffer of this geometry
AttributeBuffers(g, arrays) ==
    {[kind |-> "none"]}
    \cup {[kind |-> "array", data |-> a] : a \in arrays}
    \cup {[kind |-> "buffer", ref |-> b] :
            b \in {x \in Range(geoms[g].buffers) : heap[x].type = "f32"}}

addAttribute(g, id, buffer, size) ==
    /\ g \in Live
    /\ IF buffer.kind = "none"
       THEN /\ thrown' = "Error"
            /\ UNCHANGED <<heap, geoms, attrMaps, origin>>
       ELSE /\ buffer.kind = "array" => CanCreate(heap, g)
            /\ LET b == IF buffer.kind = "array" THEN NewRef(heap, g) ELSE buffer.ref
                   heap1 == IF buffer.kind = "array"
                            THEN (b :> Buffer(Float32Array(buffer.data), "f32")) @@ heap
                            ELSE heap
                   r == registerAll(geoms[g], MapOf(g), id, b, size)
               IN  /\ heap' = heap1
                   /\ geoms' = [geoms EXCEPT ![g] = r.geom]
                   /\ attrMaps' = [attrMaps EXCEPT ![geoms[g].attributes] = r.map]
                   /\ origin' = Registered(g, b)
                   /\ thrown' = "none"

\* ------------------------------------------------------------- addIndex
IndexBuffers(g) ==
    {[kind |-> "array", data |-> a] : a \in IndexArrays}
    \cup {[kind |-> "buffer", ref |-> b] :
            b \in {x \in Range(geoms[g].buffers) : heap[x].type = "u16"}}

addIndex(g, buffer) ==
    /\ g \in Live
    /\ buffer.kind = "array" => CanCreate(heap, g)
    /\ LET b == IF buffer.kind = "array" THEN NewRef(heap, g) ELSE buffer.ref
           heap1 == IF buffer.kind = "array"
                    THEN (b :> Buffer(Uint16Array(buffer.data), "u16")) @@ heap
                    ELSE heap
           G == geoms[g]
       IN  /\ heap' = [heap1 EXCEPT ![b].index = TRUE]
           /\ geoms' = [geoms EXCEPT ![g] =
                 [G EXCEPT !.indexBuffer = b,
                           !.buffers = IF indexOf(G.buffers, b) = -1
                                       THEN Append(G.buffers, b) ELSE G.buffers]]
           /\ origin' = Registered(g, b)
           /\ thrown' = "none"
           /\ UNCHANGED attrMaps

\* ------------------------------------------------------------- interleave
\* out[index] = value on a typed array: a write past the end is dropped
Store(out, index, value) ==
    IF index + 1 \in DOMAIN out THEN [out EXCEPT ![index + 1] = value] ELSE out

\* lines 408-414: the elements j .. length-1 of one array
RECURSIVE placeArray(_, _, _, _, _, _)
placeArray(out, array, size, stride, littleOffset, j) ==
    IF j >= Len(array) THEN out
    ELSE LET indexStart == ((j \div size) * stride) + littleOffset
             index == j % size
         IN  placeArray(Store(out, indexStart + index, array[j + 1]),
                        array, size, stride, littleOffset, j + 1)

\* a faulty placement: littleOffset is not advanced past the array just placed
RECURSIVE placeArraysAtZero(_, _, _, _, _, _)
placeArraysAtZero(out, arrays, sizes, stride, littleOffset, i) ==
    IF i > Len(arrays) THEN out
    ELSE placeArraysAtZero(
            placeArray(out, arrays[i], sizes[i], stride, littleOffset, 0),
            arrays, sizes, stride, littleOffset, i + 1)

\* lines 395-417: the arrays i .. n, each at its running column offset
RECURSIVE placeArrays(_, _, _, _, _, _)
placeArrays(out, arrays, sizes, stride, littleOffset, i) ==
    IF i > Len(arrays) THEN out
    ELSE placeArrays(placeArray(out, arrays[i], sizes[i], stride, littleOffset, 0),
                     arrays, sizes, stride, littleOffset + sizes[i], i + 1)

interleaveTypedArrays(arrays, sizes) ==
    LET stride == SumSeq(sizes)
        outSize == SumSeq([i \in DOMAIN arrays |-> Len(arrays[i])])
    IN  placeArrays([k \in 1..outSize |-> 0], arrays, sizes, stride, 0, 1)

\* a faulty fast path: the check forgets the geometry with one buffer and an index buffer
alreadyInterleavedAlone(G) == Len(G.buffers) = 1

\* line 171
alreadyInterleaved(G) ==
    Len(G.buffers) = 1 \/ (Len(G.buffers) = 2 /\ G.indexBuffer # NULL)

\* a faulty list: the index buffer is not pushed back
interleavedListAlone(interleavedBuffer, indexBuffer) == <<interleavedBuffer>>

\* lines 202-207
interleavedList(interleavedBuffer, indexBuffer) ==
    IF indexBuffer # NULL THEN <<interleavedBuffer, indexBuffer>>
    ELSE <<interleavedBuffer>>

\* line 187
footprint(attribute) == (attribute.size * GL_SIZE_MAP(attribute.type)) \div 4

interleave(g) ==
    LET G == geoms[g]
        m == MapOf(g)
        undefinedAt == {k \in DOMAIN m : m[k].attr.buffer >= Len(G.buffers)}
    IN
    /\ g \in Live
    /\ \A k \in DOMAIN m : m[k].attr.buffer < Len(G.buffers)
          => heap[G.buffers[m[k].attr.buffer + 1]].type = "f32"
    /\ IF alreadyInterleaved(G)
       THEN /\ thrown' = "none"
            /\ UNCHANGED <<heap, geoms, attrMaps, origin>>
       ELSE IF undefinedAt # {}
       THEN \* this.buffers[attribute.buffer] is undefined: buffer.data throws
            /\ attrMaps' = [attrMaps EXCEPT ![G.attributes] =
                  [k \in DOMAIN m |->
                      IF k < Min(undefinedAt)
                      THEN [m[k] EXCEPT !.attr.buffer = 0] ELSE m[k]]]
            /\ origin' = Touch(g)
            /\ thrown' = "TypeError"
            /\ UNCHANGED <<heap, geoms>>
       ELSE /\ CanCreate(destroyBuffers(heap, Range(G.buffers) \ {G.indexBuffer}), g)
            /\ LET arrays == [k \in DOMAIN m |-> heap[G.buffers[m[k].attr.buffer + 1]].data]
                   sizes == [k \in DOMAIN m |-> footprint(m[k].attr)]
                   heap1 == destroyBuffers(heap, Range(G.buffers) \ {G.indexBuffer})
                   interleavedBuffer == NewRef(heap1, g)
               IN  /\ heap' = (interleavedBuffer :>
                                  Buffer(interleaveTypedArrays(arrays, sizes), "f32"))
                              @@ heap1
                   /\ geoms' = [geoms EXCEPT ![g].buffers =
                         interleavedList(interleavedBuffer, G.indexBuffer)]
                   /\ attrMaps' = [attrMaps EXCEPT ![G.attributes] =
                         [k \in DOMAIN m |-> [m[k] EXCEPT !.attr.buffer = 0]]]
                   /\ origin' = Touch(g)
                   /\ thrown' = "none"

\* ------------------------------------------------------------- destroy
destroy(g) ==
    LET G == geoms[g] IN
    /\ g \in Live
    /\ heap' = destroyBuffers(heap, Range(G.buffers) \cup ({G.indexBuffer} \ {NULL}))
    /\ IF G.indexBuffer = NULL
       THEN \* this.indexBuffer.destroy() on null throws before attributes is cleared
            /\ geoms' = [geoms EXCEPT ![g] = [G EXCEPT !.buffers = <<>>, !.live = FALSE]]
            /\ thrown' = "TypeError"
       ELSE /\ geoms' = [geoms EXCEPT ![g] =
                 [G EXCEPT !.buffers = <<>>, !.attributes = NULL, !.live = FALSE]]
            /\ thrown' = "none"
    /\ origin' = Touch(g)
    /\ UNCHANGED attrMaps

\* ------------------------------------------------------------- clone
\* a shallow copy: geometry.buffers[i] = this.buffers[i], the Buffer itself
sharedBuffer(geometry, i, original) == original

\* line 246: geometry.buffers[i] is a new Buffer, the i-th made for geometry ...
clonedBuffer(geometry, i, original) == (geometry - 1) * MaxBuffers + i

\* ... holding this.buffers[i].data.slice(), a copy of the same typed array
slice(b) == Buffer(b.data, b.type)

\* lines 249-262: a new map holding a new Attribute per entry
cloneAttributes(m) ==
    [k \in DOMAIN m |->
        [name |-> m[k].name,
         attr |-> Attribute(m[k].attr.buffer, m[k].attr.size, m[k].attr.normalized,
                            m[k].attr.type, m[k].attr.stride, m[k].attr.start,
                            m[k].attr.instance)]]

clone(g) ==
    LET G == geoms[g]
        geometry == Len(geoms) + 1
        n == Len(G.buffers)
        buffers == [i \in 1..n |-> clonedBuffer(geometry, i, G.buffers[i])]
        at == indexOf(G.buffers, G.indexBuffer)
        indexBuffer == IF G.indexBuffer # NULL THEN buffers[at + 1] ELSE NULL
    IN
    /\ g \in Live
    /\ n <= MaxBuffers
    /\ heap' = [b \in {buffers[i] : i \in 1..n} |->
                  LET i == CHOOSE i \in 1..n : buffers[i] = b
                      c == slice(heap[G.buffers[i]])
                  IN  IF b = indexBuffer THEN [c EXCEPT !.index = TRUE] ELSE c]
               @@ heap
    /\ attrMaps' = Append(attrMaps, cloneAttributes(MapOf(g)))
    /\ geoms' = Append(geoms,
          [Geometry(Len(attrMaps) + 1) EXCEPT !.buffers = buffers,
                                             !.indexBuffer = indexBuffer])
    /\ origin' = Append(origin, [Origin("clone", <<g>>) EXCEPT !.pure = FALSE])
    /\ thrown' = "none"

\* ------------------------------------------------------------- merge
\* the caller's contract: same buffer topology and attribute layout
SameLayout(g, h) ==
    /\ Len(geoms[g].buffers) = Len(geoms[h].buffers)
    /\ \A j \in DOMAIN geoms[g].buffers :
          heap[geoms[g].buffers[j]].type = heap[geoms[h].buffers[j]].type
    /\ MapOf(g) = MapOf(h)
    /\ indexOf(geoms[g].buffers, geoms[g].indexBuffer)
          = indexOf(geoms[h].buffers, geoms[h].indexBuffer)

MergeInputs ==
    {gs \in UNION {[1..n -> Live] : n \in MergeLengths} :
        \A i \in DOMAIN gs : SameLayout(gs[i], gs[Len(gs)])}

\* lines 294-324: slot j of the output holds the inputs' slot j data in order
mergedData(geometries, j) ==
    Concat([i \in DOMAIN geometries |-> heap[geoms[geometries[i]].buffers[j]].data])

\* lines 339-346
bufferIndexToCount(G) ==
    LET other == {i \in DOMAIN G.buffers : G.buffers[i] # G.indexBuffer}
    IN  IF other = {} THEN 0 ELSE Min(other) - 1

\* lines 349-357
slotStride(m, slot) ==
    SumSeq([k \in DOMAIN m |->
              IF m[k].attr.buffer = slot THEN footprint(m[k].attr) ELSE 0])

\* line 369: the vertex count added to offset after each geometry, as the
\* fraction num/den (geometry is the LAST input here, as in the source)
vertexCount(geometries, i, slot, stride) ==
    [num |-> Len(heap[geoms[geometries[Len(geometries)]].buffers[slot + 1]].data),
     den |-> stride]

\* line 366 on a Uint16Array: data[k] += offset, offset = times * num / den;
\* a division by zero makes offset Infinity or NaN, which a Uint16 stores as 0
addOffset(value, times, count) ==
    IF times = 0 THEN value
    ELSE IF count.den = 0 THEN 0
    ELSE ToUint16((value * count.den + times * count.num) \div count.den)

\* lines 360-371: the index data of geometries i .. n, renumbered in place
RECURSIVE offsetIndexes(_, _, _, _, _, _)
offsetIndexes(data, geometries, i, offset2, slot, stride) ==
    IF i > Len(geometries) THEN data
    ELSE LET length == Len(heap[geoms[geometries[i]].indexBuffer].data)
             count == vertexCount(geometries, i, slot, stride)
         IN  offsetIndexes(
                [k \in DOMAIN data |->
                    IF offset2 < k /\ k <= offset2 + length
                    THEN addOffset(data[k], i - 1, count) ELSE data[k]],
                geometries, i + 1, offset2 + length, slot, stride)

merge(geometries) ==
    LET geometry == geoms[geometries[Len(geometries)]]
        geometryOut == Len(geoms) + 1
        n == Len(geometry.buffers)
        buffers == [j \in 1..n |-> (geometryOut - 1) * MaxBuffers + j]
        at == indexOf(geometry.buffers, geometry.indexBuffer)
        indexBuffer == IF geometry.indexBuffer # NULL THEN buffers[at + 1] ELSE NULL
        slot == bufferIndexToCount(geometry)
        stride == slotStride(attrMaps[geometry.attributes], slot)
    IN
    /\ geometries \in MergeInputs
    /\ n <= MaxBuffers
    /\ heap' = [b \in {buffers[j] : j \in 1..n} |->
                  LET j == b - (geometryOut - 1) * MaxBuffers
                      type == heap[geometry.buffers[j]].type
                  IN  IF b = indexBuffer
                      THEN [Buffer(offsetIndexes(mergedData(geometries, j), geometries,
                                                 1, 0, slot, stride), type)
                               EXCEPT !.index = TRUE]
                      ELSE Buffer(mergedData(geometries, j), type)]
               @@ heap
    \* new Geometry() makes a map that line 326 then drops for the last input's
    /\ attrMaps' = Append(attrMaps, <<>>)
    /\ geoms' = Append(geoms,
          [Geometry(geometry.attributes) EXCEPT !.buffers = buffers,
                                               !.indexBuffer = indexBuffer])
    /\ origin' = Append(origin, [Origin("merge", geometries) EXCEPT !.pure = FALSE])
    /\ thrown' = "none"

\* ------------------------------------------------------------- buffer data writes
\* the owner of a geometry writes one element of one of its typed arrays
writeData(g, slot, value) ==
    LET b == geoms[g].buffers[slot]
        v == IF heap[b].type = "u16" THEN ToUint16(value) ELSE ToFloat32(value)
    IN
    /\ g \in Live
    /\ heap[b].data # <<>>
    /\ heap[b].data[1] # v
    /\ heap' = [heap EXCEPT ![b].data[1] = v]
    /\ thrown' = "none"
    /\ UNCHANGED <<geoms, attrMaps, origin>>

\* ------------------------------------------------------------- specification
\* the caller may still register a new Buffer with geometry g
MayAdd(g, buffer, max) == buffer.kind = "array" => Cardinality(Owned(g)) < max

\* one geometry, built, interleaved and destroyed, with every input; the last
\* call is recorded
NextBuild ==
    \/ Len(geoms) = 0 /\ construct /\ last' = Op("construct", 1)
    \/ \E g \in DOMAIN geoms, id \in Ids, size \in Sizes :
         \E buffer \in AttributeBuffers(g, FloatArrays) :
            /\ MayAdd(g, buffer, MaxAdded)
            /\ addAttribute(g, id, buffer, size)
            /\ last' = Op("addAttribute", g)
    \/ \E g \in DOMAIN geoms : \E buffer \in IndexBuffers(g) :
         /\ MayAdd(g, buffer, MaxAdded)
         /\ addIndex(g, buffer)
         /\ last' = Op("addIndex", g)
    \/ \E g \in DOMAIN geoms :
         /\ interleave(g)
         /\ last' = [Op("interleave", g) EXCEPT
                        !.twice = last.name = "interleave" /\ last.g = g]
    \/ \E g \in DOMAIN geoms : destroy(g) /\ last' = Op("destroy", g)

SpecBuild == Init /\ [][NextBuild]_vars

\* one geometry and its clone, with writes to the buffer data
NextClone ==
    \/ Len(geoms) = 0 /\ construct /\ UNCHANGED last
    \/ \E g \in DOMAIN geoms, id \in CloneIds, size \in LeanSizes :
         \E buffer \in AttributeBuffers(g, LeanArrays) \ {[kind |-> "none"]} :
            /\ MayAdd(g, buffer, MaxLeanAdded)
            /\ addAttribute(g, id, buffer, size)
            /\ UNCHANGED last
    \/ \E g \in DOMAIN geoms : \E buffer \in IndexBuffers(g) :
         MayAdd(g, buffer, MaxLeanAdded) /\ addIndex(g, buffer) /\ UNCHANGED last
    \/ \E g \in DOMAIN geoms : interleave(g) /\ UNCHANGED last
    \/ \E g \in DOMAIN geoms : Len(geoms) = 1 /\ clone(g) /\ UNCHANGED last
    \/ \E g \in DOMAIN geoms : \E slot \in DOMAIN geoms[g].buffers, value \in WriteValues :
         writeData(g, slot, value) /\ UNCHANGED last

SpecClone == Init /\ [][NextClone]_vars

\* geometries built, interleaved, cloned and merged
Next ==
    \/ Len(geoms) < MaxGeoms /\ construct /\ UNCHANGED last
    \/ \E g \in DOMAIN geoms, id \in LeanIds, size \in LeanSizes :
         \E buffer \in AttributeBuffers(g, FloatArrays) \ {[kind |-> "none"]} :
            /\ MayAdd(g, buffer, MaxLeanAdded)
            /\ addAttribute(g, id, buffer, size)
            /\ UNCHANGED last
    \/ \E g \in DOMAIN geoms : \E buffer \in IndexBuffers(g) :
         MayAdd(g, buffer, MaxLeanAdded) /\ addIndex(g, buffer) /\ UNCHANGED last
    \/ \E g \in DOMAIN geoms : interleave(g) /\ UNCHANGED last
    \/ \E g \in DOMAIN geoms : Len(geoms) < MaxGeoms /\ clone(g) /\ UNCHANGED last
    \/ \E geometries \in MergeInputs :
         Len(geoms) < MaxGeoms /\ merge(geometries) /\ UNCHANGED last

Spec == Init /\ [][Next]_vars

\* geometries built, then merged once
Unmerged == \A g \in DOMAIN geoms : origin[g].kind = "new"

NextMerge ==
    \/ Len(geoms) < MaxGeoms /\ Unmerged /\ construct /\ UNCHANGED last
    \/ \E g \in DOMAIN geoms, id \in LeanIds, size \in LeanSizes :
         \E buffer \in AttributeBuffers(g, FloatArrays) \ {[kind |-> "none"]} :
            /\ MayAdd(g, buffer, MaxLeanAdded) /\ Unmerged
            /\ addAttribute(g, id, buffer, size)
            /\ UNCHANGED last
    \/ \E g \in DOMAIN geoms : \E buffer \in IndexBuffers(g) :
         /\ MayAdd(g, buffer, MaxLeanAdded) /\ Unmerged
         /\ addIndex(g, buffer)
         /\ UNCHANGED last
    \/ \E geometries \in MergeInputs : Unmerged /\ merge(geometries) /\ UNCHANGED last

SpecMerge == Init /\ [][NextMerge]_vars

\* ------------------------------------------------------------- observations
\* all that is reachable from geometry g
View(g) ==
    [buffers |-> geoms[g].buffers,
     data |-> [i \in DOMAIN geoms[g].buffers |-> heap[geoms[g].buffers[i]]],
     indexBuffer |-> geoms[g].indexBuffer,
     attributes |-> IF geoms[g].attributes = NULL THEN <<>> ELSE MapOf(g),
     live |-> geoms[g].live]

Built == {g \in Live : origin[g].pure}

\* the step just taken was a call of interleave on g that returned
Interleaved(g) == last.name = "interleave" /\ last.g = g /\ thrown = "none"

\* ------------------------------------------------------------- C2
\* C2: destroy() on a Geometry whose indexBuffer is null raises no error and
\* clears the attribute map.
C2_DestroyWithoutIndex ==
    \A g \in DOMAIN geoms :
        (last.name = "destroy" /\ last.g = g /\ geoms[g].indexBuffer = NULL)
            => (thrown = "none" /\ geoms[g].attributes = NULL)

\* ------------------------------------------------------------- C6
\* C6: after addAttribute and addIndex calls only, the buffer list of a Geometry
\* created empty holds no Buffer twice, and is as long as the number of distinct
\* Buffers registered.
C6_NoDuplicateBuffers ==
    \A g \in Built :
        /\ \A i, j \in DOMAIN geoms[g].buffers :
              geoms[g].buffers[i] = geoms[g].buffers[j] => i = j
        /\ Len(geoms[g].buffers) = Cardinality(origin[g].adds)

\* a Buffer registered under two names and a second Buffer are in the list
C6_Witness ==
    \E g \in Built :
        /\ last.name = "addAttribute" /\ last.g = g
        /\ Len(geoms[g].buffers) = 2
        /\ \E j, k \in DOMAIN MapOf(g) :
              j # k /\ MapOf(g)[j].attr.buffer = MapOf(g)[k].attr.buffer

\* ------------------------------------------------------------- C9
\* C9: a set indexBuffer is in the buffer list, and no other Buffer of the list
\* has its index flag set.
C9_OneIndexBuffer ==
    \A g \in Live :
        geoms[g].indexBuffer # NULL =>
            /\ geoms[g].indexBuffer \in Range(geoms[g].buffers)
            /\ \A b \in Range(geoms[g].buffers) :
                  heap[b].index => b = geoms[g].indexBuffer

\* ------------------------------------------------------------- C7
\* C7: a second interleave() straight after a first changes nothing: the same
\* buffer list, the same data, the same attribute buffer indices, no Buffer
\* destroyed.
C7_InterleaveIdempotent ==
    [][(last'.name = "interleave" /\ last'.twice
            /\ thrown = "none" /\ thrown' = "none")
          => (heap' = heap /\ geoms' = geoms /\ attrMaps' = attrMaps)]_vars

\* interleave has run twice in a row on a geometry it had to pack: two
\* attributes on the packed buffer, next to an index buffer
C7_Witness ==
    \E g \in Live :
        /\ Interleaved(g) /\ last.twice
        /\ ~origin[g].pure
        /\ Len(MapOf(g)) = 2
        /\ Len(geoms[g].buffers) = 2
        /\ geoms[g].indexBuffer # NULL

\* ------------------------------------------------------------- C5
\* the attributes of g each have a Float32 buffer of their own (shared with no
\* other attribute, not the index buffer), all of n vertices
Vertices(g) ==
    Len(heap[geoms[g].buffers[MapOf(g)[1].attr.buffer + 1]].data)
        \div MapOf(g)[1].attr.size

OwnBuffers(g, n) ==
    LET m == MapOf(g)
        G == geoms[g]
    IN  /\ \A k \in DOMAIN m :
              /\ m[k].attr.buffer < Len(G.buffers)
              /\ G.buffers[m[k].attr.buffer + 1] # G.indexBuffer
              /\ heap[G.buffers[m[k].attr.buffer + 1]].type = "f32"
              /\ Len(heap[G.buffers[m[k].attr.buffer + 1]].data) = n * m[k].attr.size
        /\ \A j, k \in DOMAIN m : j # k => m[j].attr.buffer # m[k].attr.buffer

\* C5: interleave() on float attributes of sizes s_1 .. s_K, each with its own
\* buffer of n vertices, leaves every attribute on one packed buffer of length
\* n * (s_1 + .. + s_K), component c of vertex v of attribute k at index
\* v * stride + (s_1 + .. + s_(k-1)) + c.
C5_PackedLayout ==
    [][\A g \in Live :
          (/\ last'.name = "interleave" /\ last'.g = g /\ thrown' = "none"
           /\ MapOf(g) # <<>>
           /\ MapOf(g)[1].attr.buffer < Len(geoms[g].buffers)
           /\ OwnBuffers(g, Vertices(g)))
          => LET m == MapOf(g)
                 n == Vertices(g)
                 size == [k \in DOMAIN m |-> m[k].attr.size]
                 old == [k \in DOMAIN m |->
                            heap[geoms[g].buffers[m[k].attr.buffer + 1]].data]
                 stride == SumSeq(size)
                 before == [k \in DOMAIN m |-> SumSeq(SubSeq(size, 1, k - 1))]
                 slot == MapOf(g)'[1].attr.buffer
                 packed == heap'[geoms'[g].buffers[slot + 1]].data
             IN  /\ \A k \in DOMAIN m : MapOf(g)'[k].attr.buffer = slot
                 /\ Len(packed) = n * stride
                 /\ \A k \in DOMAIN m : \A v \in 0..(n - 1) : \A c \in 0..(size[k] - 1) :
                       packed[v * stride + before[k] + c + 1]
                           = old[k][v * size[k] + c + 1]]_vars

\* a (size 1) over <<1, 2>> and b (size 2) over <<3, 4, 5, 6>>, two vertices
\* each, have been packed
C5_Witness ==
    \E g \in Live :
        /\ Interleaved(g)
        /\ Len(MapOf(g)) = 2
        /\ MapOf(g)[1].attr.size = 1 /\ MapOf(g)[2].attr.size = 2
        /\ heap[geoms[g].buffers[1]].data = <<1, 3, 4, 2, 5, 6>>

\* ------------------------------------------------------------- C10
\* the buffer list is [packed vertex buffer], or [packed vertex buffer,
\* indexBuffer], and every attribute is on slot 0
Packed(g) ==
    LET G == geoms[g] IN
    /\ \A k \in DOMAIN MapOf(g) : MapOf(g)[k].attr.buffer = 0
    /\ Len(G.buffers) = IF G.indexBuffer = NULL THEN 1 ELSE 2
    /\ G.buffers[1] # G.indexBuffer
    /\ heap[G.buffers[1]].type = "f32"
    /\ G.indexBuffer # NULL => G.buffers[2] = G.indexBuffer

IndexDataKept(g) ==
    geoms[g].indexBuffer # NULL =>
        /\ geoms'[g].indexBuffer = geoms[g].indexBuffer
        /\ heap'[geoms[g].indexBuffer].data = heap[geoms[g].indexBuffer].data

\* C10: after interleave() returns, every attribute's buffer index is 0 and the
\* buffer list is [packed] or [packed, indexBuffer], the index data unmodified.
C10_AlwaysPacked ==
    [][\A g \in Live :
          (last'.name = "interleave" /\ last'.g = g /\ thrown' = "none")
              => (Packed(g)' /\ IndexDataKept(g))]_vars

\* C10 as amended: the same after every call that does not find exactly one
\* buffer, or exactly two with an index buffer set; a call that does leaves the
\* geometry as it is.
C10_PackedUnlessAlready ==
    [][\A g \in Live :
          (last'.name = "interleave" /\ last'.g = g /\ thrown' = "none")
              => IF Len(geoms[g].buffers) = 1
                    \/ (Len(geoms[g].buffers) = 2 /\ geoms[g].indexBuffer # NULL)
                 THEN View(g)' = View(g)
                 ELSE Packed(g)' /\ IndexDataKept(g)]_vars

\* interleave has packed two attributes registered after the index buffer
C10_Witness ==
    \E g \in Live :
        /\ Interleaved(g) /\ ~last.twice
        /\ ~origin[g].pure
        /\ Len(MapOf(g)) = 2
        /\ geoms[g].indexBuffer # NULL
        /\ geoms[g].indexBuffer = Min(DOMAIN heap)
        /\ Packed(g)

\* ------------------------------------------------------------- C4
\* the step is a call on geometry g that mutates it: a data write, addAttribute
\* (of one of ids, sizes, arrays), addIndex or interleave
Mutated(g, ids, sizes, arrays) ==
    \/ \E id \in ids, size \in sizes :
         \E buffer \in AttributeBuffers(g, arrays) :
            addAttribute(g, id, buffer, size)
    \/ \E buffer \in IndexBuffers(g) : addIndex(g, buffer)
    \/ interleave(g)
    \/ \E slot \in DOMAIN geoms[g].buffers, value \in WriteValues :
         writeData(g, slot, value)

CloneOf(c, o) == origin[c].kind = "clone" /\ origin[c].src = <<o>>

\* c has o's buffers by content and order, its attributes by value, its index
\* buffer at the same position, and no Buffer or attribute map of o
EqualUnshared(c, o) ==
    LET C == geoms[c]
        O == geoms[o]
    IN
    /\ Len(C.buffers) = Len(O.buffers)
    /\ \A i \in DOMAIN O.buffers :
          /\ heap[C.buffers[i]].data = heap[O.buffers[i]].data
          /\ heap[C.buffers[i]].type = heap[O.buffers[i]].type
    /\ MapOf(c) = MapOf(o)
    /\ C.indexBuffer = IF O.indexBuffer = NULL THEN NULL
                       ELSE C.buffers[indexOf(O.buffers, O.indexBuffer) + 1]
    /\ Range(C.buffers) \cap Range(O.buffers) = {}
    /\ C.attributes # O.attributes

\* C4: clone() returns a geometry equal to the original in buffers, attributes
\* and index position that shares nothing with it; no later mutation of either
\* changes the other (a step that changes one is no mutation of the other).
C4_CloneIndependent ==
    [][/\ \A o \in DOMAIN geoms :
            clone(o) => /\ EqualUnshared(Len(geoms), o)'
                        /\ View(o)' = View(o)
       /\ \A c, o \in DOMAIN geoms :
            CloneOf(c, o) =>
                /\ View(o)' # View(o) => ~Mutated(c, CloneIds, LeanSizes, LeanArrays)
                /\ View(c)' # View(c) => ~Mutated(o, CloneIds, LeanSizes, LeanArrays)]_vars

\* a clone of a geometry with an index buffer, written to since
C4_Witness ==
    \E c, o \in Live :
        /\ CloneOf(c, o)
        /\ geoms[o].indexBuffer # NULL
        /\ geoms[c].indexBuffer # NULL
        /\ MapOf(o) # <<>>
        /\ Len(geoms[c].buffers) = Len(geoms[o].buffers)
        /\ \E i \in DOMAIN geoms[c].buffers :
              /\ heap[geoms[o].buffers[i]].data # <<>>
              /\ heap[geoms[c].buffers[i]].data # heap[geoms[o].buffers[i]].data

\* ------------------------------------------------------------- C1
\* the vertex count of geometry g: the element count of its own vertex slot
\* divided by the slot's stride
OwnVertexCount(g) ==
    LET slot == bufferIndexToCount(geoms[g])
    IN  Len(heap[geoms[g].buffers[slot + 1]].data) \div slotStride(MapOf(g), slot)

\* the inputs each hold whole vertices in a vertex slot, and an index buffer
Mergeable(gs) ==
    \A i \in DOMAIN gs :
        LET G == geoms[gs[i]]
            slot == bufferIndexToCount(G)
            stride == slotStride(MapOf(gs[i]), slot)
        IN  /\ G.live /\ G.indexBuffer # NULL
            /\ G.buffers[slot + 1] # G.indexBuffer
            /\ stride > 0
            /\ Len(heap[G.buffers[slot + 1]].data) % stride = 0

\* C1: the merged index buffer is the inputs' index data in order, the indices
\* of input i raised by the vertex counts of the inputs before it.
C1_IndexOffsetByPrecedingVertices ==
    \A m \in DOMAIN geoms :
        (origin[m].kind = "merge" /\ Mergeable(origin[m].src)) =>
            LET gs == origin[m].src
                before(i) == SumSeq([j \in 1..(i - 1) |-> OwnVertexCount(gs[j])])
            IN  heap[geoms[m].indexBuffer].data =
                    Concat([i \in DOMAIN gs |->
                        LET data == heap[geoms[gs[i]].indexBuffer].data
                        IN  [k \in DOMAIN data |-> ToUint16(data[k] + before(i))]])

\* ------------------------------------------------------------- C3
\* C3: merge changes no input, and no addAttribute, addIndex or interleave on
\* the merged geometry changes an input's buffers, data or attributes.
C3_MergedIndependent ==
    [][/\ \A gs \in MergeInputs :
            merge(gs) => \A g \in DOMAIN geoms : View(g)' = View(g)
       /\ \A m \in DOMAIN geoms :
            (origin[m].kind = "merge" /\ Mutated(m, LeanIds, LeanSizes, FloatArrays)) =>
                \A i \in DOMAIN origin[m].src :
                    View(origin[m].src[i])' = View(origin[m].src[i])]_vars

\* ------------------------------------------------------------- C8
\* C8: every attribute's buffer index is a position in its geometry's buffer
\* list.
C8_BufferIndexValid ==
    \A g \in Live : \A k \in DOMAIN MapOf(g) :
        /\ 0 <= MapOf(g)[k].attr.buffer
        /\ MapOf(g)[k].attr.buffer < Len(geoms[g].buffers)
====
